---- MODULE Spec2Model ----
(***************************************************************************)
(* The real-time voice session engine of the J.A.R.V.I.S. HUD (App.tsx):   *)
(* session lifecycle, playback scheduling, transcript aggregation, the     *)
(* bounded console log and the visualization tick loop, as a state machine *)
(* whose steps are the event-loop tasks of the component.                  *)
(***************************************************************************)
EXTENDS Integers, Sequences, FiniteSets, TLC

(***************************************************************************)
(* Bounds of the model                                                     *)
(***************************************************************************)
MaxSessions == 2   \* AudioContexts, streams and remote sessions there can be
MaxStarts == 1     \* startSession invocations of a run
MaxMsgs == 1       \* inbound server messages of a run
MaxTime == 1       \* seconds the clock advances in a run
MaxRaf == 2        \* requestAnimationFrame handles handed out in a run
MaxStops == 1      \* stopSession invocations of a run
MaxProfileChanges == 1   \* changeProfile invocations of a run
MaxPlayMsgs == 2   \* inbound messages of a playback run
MaxPlayTime == 1   \* seconds the clock advances in a playback run
MaxTextMsgs == 3   \* inbound messages of a transcript run
MaxAppends == 2    \* changeProfile invocations of a log run
MaxDrainMsgs == 2  \* inbound messages of a drain run
MaxVizRaf == 5     \* requestAnimationFrame handles handed out in a tick run
MaxTurnMsgs == 2   \* inbound messages of an interrupted-turn run
MaxCapture == 1    \* onaudioprocess callbacks
MaxAttempts == 2   \* startSession invocations of a capture run
MaxFrames == 2     \* onaudioprocess callbacks of a capture run
MaxAgainRaf == 3   \* requestAnimationFrame handles handed out in a restart run

(***************************************************************************)
(* Program constants                                                       *)
(***************************************************************************)
LogCap == 50       \* .slice(-50)
FftSize == 256     \* const fftSize = 256

STANDBY == "STANDBY"
INITIALIZING == "INITIALIZING"
CONNECTING == "CONNECTING"
LISTENING == "LISTENING"
SPEAKING == "SPEAKING"
ERROR == "ERROR"

VARIABLES
  status,                   \* useState<SystemStatus>
  logs,                     \* useState<ConsoleLog[]>
  isLive,                   \* useState(false)
  activeProfile,            \* useState('Standard Operations')
  freqData,                 \* useState<Uint8Array>
  tapData,                  \* what the two taps gave the latest updateVisualization
  inputAudioContextRef,     \* 0 is null, otherwise the context's id
  outputAudioContextRef,
  inputAnalyserRef,
  outputAnalyserRef,
  nextStartTimeRef,
  activeSourcesRef,         \* Set<AudioBufferSourceNode>, by node id
  streamRef,
  sessionPromiseRef,
  currentTranscriptionRef,  \* [input, output]
  currentSourcesRef,
  animationFrameRef,
  \* the environment the component runs in
  apiKey,                   \* import.meta.env.VITE_GEMINI_API_KEY is set
  now,                      \* wall clock
  ctxBorn,                  \* creation time of each AudioContext
  att,                      \* each startSession invocation: where it is
  attProfile,               \* the activeProfile each invocation closed over
  sess,                     \* each remote session: its connection state
  closeReq,                 \* sessions whose close() has been called
  closeWait,                \* sessions with a close() queued on the promise
  liveTracks,               \* MediaStreams whose tracks are not stopped
  rafPending,               \* scheduled animation-frame callbacks
  rafNext,                  \* next requestAnimationFrame handle
  nodes,                    \* every AudioBufferSourceNode created
  decoding,                 \* onmessage handlers suspended in decodeAudioData
  msgCount,                 \* inbound messages so far (arrival numbering)
  processors,               \* sessions whose onopen set scriptProcessor.onaudioprocess
  frameNo,                  \* onaudioprocess callbacks so far (capture numbering)
  thens,                    \* frames whose .then waits on a pending session promise
  sent,                     \* the calls of sendRealtimeInput on each session, in order
  \* history
  started,                  \* the calls of sourceNode.start, in call order
  dropped,                  \* arrival numbers of the chunks whose decode was rejected
  flushes,                  \* the calls of stopAllAudio, in call order
  intrArr,                  \* arrival number of the latest handled interruption
  appended,                 \* every entry ever passed to addLog
  turnMsgs,                 \* the messages handled since the last finalization
  finals,                   \* the finalizations, in order
  stops,
  profileChanges

vars == << status, logs, isLive, activeProfile, freqData, tapData,
           inputAudioContextRef,
           outputAudioContextRef, inputAnalyserRef, outputAnalyserRef,
           nextStartTimeRef, activeSourcesRef, streamRef, sessionPromiseRef,
           currentTranscriptionRef, currentSourcesRef, animationFrameRef,
           apiKey, now, ctxBorn, att, attProfile, sess, closeReq, closeWait, liveTracks,
           rafPending, rafNext, nodes, decoding, msgCount, started, dropped,
           flushes, intrArr, appended, turnMsgs, finals, stops, profileChanges, processors,
           frameNo, thens, sent >>

Att == 1..MaxSessions

Max(a, b) == IF a >= b THEN a ELSE b

(***************************************************************************)
(* Log entries and addLog                                                  *)
(***************************************************************************)
\* A ConsoleLog without its id: the id is given when it is appended.  The id
\* stands for the entry's random id and timestamp: no two entries share it.
Entry(message, sender, sources) ==
  [message |-> message, sender |-> sender, sources |-> sources]

WithId(e, id) ==
  [id |-> id, message |-> e.message, sender |-> e.sender, sources |-> e.sources]

\* the first n elements kept instead: slice(0, n)
MutSliceLast(s, n) == IF Len(s) <= n THEN s ELSE SubSeq(s, 1, n)

\* the last n elements of s: Array.prototype.slice(-n)
SliceLast(s, n) ==
  IF Len(s) <= n THEN s ELSE SubSeq(s, Len(s) - n + 1, Len(s))

\* setLogs(prev => [...prev, entry].slice(-50))
AddLog(prev, entry) == SliceLast(Append(prev, entry), LogCap)

NoSources == << >>

\* entries appended one after the other
RECURSIVE AddAll(_, _)
AddAll(prev, es) ==
  IF es = << >> THEN prev ELSE AddAll(AddLog(prev, Head(es)), Tail(es))

\* the entries es with the ids after `last`
Stamp(es, last) == [i \in 1..Len(es) |-> WithId(es[i], last + i)]

(***************************************************************************)
(* Inbound server messages (LiveServerMessage.serverContent)               *)
(***************************************************************************)
\* A text is a sequence of tokens; += is concatenation and the empty text is
\* falsy.  An absent transcription and one with empty text leave the buffer
\* the same, so both are the empty text.  audio = 0 is a message without
\* inline audio data, otherwise it is the decoded buffer's duration.
Msg(g, i, o, tc, au, intr) ==
  [grounding |-> g, input |-> i, output |-> o, turnComplete |-> tc,
   audio |-> au, interrupted |-> intr]

WebChunk(title, uri) == [web |-> TRUE, title |-> title, uri |-> uri]
OtherChunk == [web |-> FALSE, title |-> "", uri |-> ""]

\* the sources prepended instead of appended
MutAddSources(current, new) == new \o current

\* currentSourcesRef.current = [...currentSourcesRef.current, ...newSources]
AddSources(current, new) == current \o new

\* chunks.filter(c => c.web).map(c => ({title: c.web.title || 'Source', uri: c.web.uri}))
SourceOf(c) == [title |-> IF c.title = "" THEN "Source" ELSE c.title, uri |-> c.uri]

RECURSIVE NewSources(_)
NewSources(chunks) ==
  IF chunks = << >> THEN << >>
  ELSE IF Head(chunks).web
       THEN << SourceOf(Head(chunks)) >> \o NewSources(Tail(chunks))
       ELSE NewSources(Tail(chunks))

\* a chunk of duration 2, an interruption alone, and a chunk of duration 1
\* that comes in the same message as an interruption
AudioMsgs ==
  { Msg(<< >>, << >>, << >>, FALSE, 2, FALSE),
    Msg(<< >>, << >>, << >>, FALSE, 0, TRUE),
    Msg(<< >>, << >>, << >>, FALSE, 1, TRUE) }

TextMsgs ==
  { Msg(<< >>, << "hello" >>, << >>, FALSE, 0, FALSE),
    Msg(<< WebChunk("", "u1"), OtherChunk >>, << >>, << "hi" >>, FALSE, 0, FALSE),
    Msg(<< WebChunk("T", "u2") >>, << >>, << >>, FALSE, 0, FALSE),
    Msg(<< WebChunk("T", "u3") >>, << >>, << "there" >>, TRUE, 0, FALSE),
    Msg(<< >>, << >>, << >>, TRUE, 0, FALSE) }

Msgs == AudioMsgs \cup TextMsgs

(***************************************************************************)
(* Playback cursor (nextStartTimeRef) and the in-flight set                *)
(***************************************************************************)
CtxTime(c) == now - ctxBorn[c]           \* ctx.currentTime

\* nextStartTimeRef.current = Math.max(nextStartTimeRef.current, ctx.currentTime)
CursorOnArrival(next, t) == Max(next, t)

\* the cursor left where it was
MutCursorAfterStart(next, dur) == next

\* nextStartTimeRef.current += audioBuffer.duration
CursorAfterStart(next, dur) == next + dur

\* stopAllAudio: nextStartTimeRef.current = 0
CursorAfterFlush == 0

\* the set left as it was
MutActiveAfterFlush(active) == active

\* stopAllAudio: activeSourcesRef.current.clear()
ActiveAfterFlush(active) == {}

\* no source stopped
MutStopSources(nd, active) == nd

\* stopAllAudio: source.stop() on every source of the set
StopSources(nd, active) ==
  [n \in DOMAIN nd |->
     IF n \in active /\ nd[n].state = "playing"
     THEN [nd[n] EXCEPT !.state = "stopped"] ELSE nd[n]]

\* startSession invocations so far that got past the isLive test
Starts == Cardinality({a \in Att : att[a] # "none"})

\* the record of one stopAllAudio call: when, on which output clock, and after
\* how many startSession invocations
FlushRec(by, arr) ==
  [by |-> by, arr |-> arr, at |-> now, ctx |-> outputAudioContextRef,
   from |-> status, stopped |-> activeSourcesRef, starts |-> Starts]

(***************************************************************************)
(* Visualization (updateVisualization)                                     *)
(***************************************************************************)
Bins == 0..(FftSize \div 2 - 1)       \* new Uint8Array(fftSize / 2)

Silence == [i \in Bins |-> 0]
Tone == [i \in Bins |-> IF i < 64 THEN 255 - i ELSE 3]
Hiss == [i \in Bins |-> IF i < 64 THEN 10 ELSE 200]
Spectra == {Tone, Hiss}               \* getByteFrequencyData results

\* the later data overwrites the earlier
MutMergeInto(combined, data) == [i \in Bins |-> data[i]]

\* combinedData[i] = Math.max(combinedData[i], data[i])
MergeInto(combined, data) == [i \in Bins |-> Max(combined[i], data[i])]

\* the vector one tick publishes; a tap that is null is skipped
CombinedData(inTap, inData, outTap, outData) ==
  LET c0 == [i \in Bins |-> 0]
      c1 == IF inTap # 0 THEN MergeInto(c0, inData) ELSE c0
  IN  IF outTap # 0 THEN MergeInto(c1, outData) ELSE c1

\* if (animationFrameRef.current) cancelAnimationFrame(animationFrameRef.current)
CancelFrame(pending, ref) == IF ref # 0 THEN pending \ {ref} ELSE pending

(***************************************************************************)
(* Groups of variables                                                     *)
(***************************************************************************)
ctxVars == << inputAudioContextRef, outputAudioContextRef, inputAnalyserRef,
              outputAnalyserRef, ctxBorn >>
playVars == << nextStartTimeRef, activeSourcesRef, nodes, decoding, started,
               dropped, flushes, intrArr >>
textVars == << currentTranscriptionRef, currentSourcesRef, turnMsgs, finals >>
rafVars == << animationFrameRef, rafPending, rafNext, freqData, tapData >>
remoteVars == << sess, closeReq, closeWait, attProfile >>
countVars == << stops, profileChanges, msgCount >>
capVars == << processors, frameNo, thens, sent >>

Profiles == {"Standard Operations", "Deep Search"}

EmptyTurn == [input |-> << >>, output |-> << >>]

\* updateVisualization has not run yet
NoTapData == [in |-> << >>, out |-> << >>]

\* the component before anything was logged: useState and useRef initial values
Unstarted ==
  /\ status = STANDBY
  /\ isLive = FALSE
  /\ freqData = << >>
  /\ tapData = NoTapData
  /\ inputAudioContextRef = 0
  /\ outputAudioContextRef = 0
  /\ inputAnalyserRef = 0
  /\ outputAnalyserRef = 0
  /\ nextStartTimeRef = 0
  /\ activeSourcesRef = {}
  /\ streamRef = 0
  /\ sessionPromiseRef = 0
  /\ currentTranscriptionRef = EmptyTurn
  /\ currentSourcesRef = << >>
  /\ animationFrameRef = 0
  /\ apiKey \in BOOLEAN
  /\ now = 0
  /\ ctxBorn = [a \in Att |-> 0]
  /\ att = [a \in Att |-> "none"]
  /\ attProfile = [a \in Att |-> ""]
  /\ sess = [a \in Att |-> "none"]
  /\ closeReq = {}
  /\ closeWait = {}
  /\ liveTracks = {}
  /\ rafPending = {}
  /\ rafNext = 1
  /\ processors = {}
  /\ nodes = << >>
  /\ decoding = {}
  /\ msgCount = 0
  /\ frameNo = 0
  /\ thens = [a \in Att |-> << >>]
  /\ sent = [a \in Att |-> << >>]
  /\ started = << >>
  /\ dropped = {}
  /\ flushes = << >>
  /\ intrArr = 0
  /\ turnMsgs = << >>
  /\ finals = << >>
  /\ stops = 0
  /\ profileChanges = 0

Init ==
  /\ Unstarted
  /\ logs = << >>
  /\ appended = << >>
  /\ activeProfile = "Standard Operations"

\* the log and its history after the entries es are passed to addLog in order
Log(es) ==
  /\ logs' = AddAll(logs, Stamp(es, Len(appended)))
  /\ appended' = appended \o Stamp(es, Len(appended))

Sys(message) == Entry(message, "SYSTEM", NoSources)

\* the handler without its setStatus(SystemStatus.ERROR)
MutHandleSystemError(before, errorMsg) ==
  /\ status' = status
  /\ Log(before \o << Sys(<< "Critical System Error: ", errorMsg >>) >>)
  /\ isLive' = FALSE
  /\ rafPending' = CancelFrame(rafPending, animationFrameRef)

\* handleSystemError(errorMsg), after the entries `before` were logged
HandleSystemError(before, errorMsg) ==
  /\ status' = ERROR
  /\ Log(before \o << Sys(<< "Critical System Error: ", errorMsg >>) >>)
  /\ isLive' = FALSE
  /\ rafPending' = CancelFrame(rafPending, animationFrameRef)

\* the attempt a new startSession invocation makes
NextAtt == CHOOSE a \in Att : att[a] = "none" /\ \A b \in Att : b < a => att[b] # "none"

(***************************************************************************)
(* startSession, up to the await of getUserMedia                           *)
(***************************************************************************)
\* if (isLive) return
StartSessionLive ==
  /\ isLive
  /\ UNCHANGED vars

\* the credential test made after the audio contexts are created
MutStartSessionNoKey ==
  /\ ~isLive
  /\ \E a \in Att : att[a] = "none"
  /\ ~apiKey
  /\ HandleSystemError(<< Sys(<< "Bypassing standard security protocols..." >>) >>,
                       "Security handshake failed. API Key missing.")
  /\ att' = [att EXCEPT ![NextAtt] = "failed"]
  /\ inputAudioContextRef' = NextAtt
  /\ outputAudioContextRef' = NextAtt
  /\ UNCHANGED << activeProfile, streamRef, sessionPromiseRef, apiKey, capVars, now,
                  liveTracks, animationFrameRef, rafNext, freqData, tapData, inputAnalyserRef,
                  outputAnalyserRef, ctxBorn, playVars, textVars, remoteVars,
                  countVars >>

\* throw new Error("Security handshake failed. API Key missing."), caught
StartSessionNoKey ==
  /\ ~isLive
  /\ \E a \in Att : att[a] = "none"
  /\ ~apiKey
  /\ HandleSystemError(<< Sys(<< "Bypassing standard security protocols..." >>) >>,
                       "Security handshake failed. API Key missing.")
  /\ att' = [att EXCEPT ![NextAtt] = "failed"]
  /\ UNCHANGED << activeProfile, streamRef, sessionPromiseRef, apiKey, capVars, now,
                  liveTracks, animationFrameRef, rafNext, freqData, tapData, ctxVars,
                  playVars, textVars, remoteVars, countVars >>

StartSession ==
  /\ ~isLive
  /\ \E a \in Att : att[a] = "none"
  /\ apiKey
  /\ LET a == NextAtt IN
     /\ status' = INITIALIZING
     /\ Log(<< Sys(<< "Bypassing standard security protocols..." >>) >>)
     /\ inputAudioContextRef' = a
     /\ outputAudioContextRef' = a
     /\ inputAnalyserRef' = a
     /\ outputAnalyserRef' = a
     /\ ctxBorn' = [ctxBorn EXCEPT ![a] = now]
     \* updateVisualization(): both taps exist and nothing is connected yet
     /\ freqData' = CombinedData(a, Silence, a, Silence)
     /\ tapData' = [in |-> Silence, out |-> Silence]
     /\ animationFrameRef' = rafNext
     /\ rafPending' = rafPending \cup {rafNext}
     /\ rafNext' = rafNext + 1
     /\ att' = [att EXCEPT ![a] = "gum"]
     /\ attProfile' = [attProfile EXCEPT ![a] = activeProfile]
  /\ UNCHANGED << isLive, activeProfile, streamRef, sessionPromiseRef, apiKey, capVars, now,
                  liveTracks, playVars, textVars, sess, closeReq, closeWait,
                  countVars >>

\* getUserMedia resolves: the rest of startSession's try block
GumResolve(a) ==
  /\ att[a] = "gum"
  /\ streamRef' = a
  /\ liveTracks' = liveTracks \cup {a}
  /\ status' = CONNECTING
  /\ Log(<< Sys(<< "Establishing neural link v5.0..." >>) >>)
  /\ sess' = [sess EXCEPT ![a] = "connecting"]
  /\ sessionPromiseRef' = a
  /\ att' = [att EXCEPT ![a] = "connected"]
  /\ UNCHANGED << isLive, activeProfile, apiKey, capVars, now, closeReq, closeWait, attProfile,
                  ctxVars, playVars, textVars, rafVars, countVars >>

\* the rejection swallowed: the catch block does nothing
MutGumReject(a, message) ==
  /\ att[a] = "gum"
  /\ att' = [att EXCEPT ![a] = "failed"]
  /\ UNCHANGED << status, logs, appended, isLive, rafPending, activeProfile, streamRef,
                  sessionPromiseRef, apiKey, capVars, now, liveTracks, animationFrameRef,
                  rafNext, freqData, tapData, ctxVars, playVars, textVars, remoteVars,
                  countVars >>

\* getUserMedia rejects: the catch block
GumReject(a, message) ==
  /\ att[a] = "gum"
  /\ HandleSystemError(<< >>, IF message = "" THEN "Uplink failed." ELSE message)
  /\ att' = [att EXCEPT ![a] = "failed"]
  /\ UNCHANGED << activeProfile, streamRef, sessionPromiseRef, apiKey, capVars, now,
                  liveTracks, animationFrameRef, rafNext, freqData, tapData, ctxVars,
                  playVars, textVars, remoteVars, countVars >>

(***************************************************************************)
(* The callbacks of ai.live.connect                                        *)
(***************************************************************************)
\* a callback put first in the list of a pending promise
MutEnqueue(q, f) == << f >> \o q

\* promise.then(callback) on a pending promise: callbacks run in the order of
\* their registration
Enqueue(q, f) == Append(q, f)

\* session.sendRealtimeInput({media: pcmBlob}) for each frame of q, on a
\* session in the given connection state; a callback registered after the
\* one that calls session.close() runs after it
Delivered(q, state) ==
  [i \in 1..Len(q) |->
     [from |-> q[i].from, no |-> q[i].no, waited |-> q[i].waited,
      state |-> IF q[i].late /\ state = "open" THEN "closing" ELSE state]]

\* onopen; a close() that stopSession queued on the pending promise runs as
\* soon as the promise resolves
OnOpen(a) ==
  /\ sess[a] = "connecting"
  /\ sess' = [sess EXCEPT ![a] = "open"]
  /\ closeReq' = IF a \in closeWait THEN closeReq \cup {a} ELSE closeReq
  /\ closeWait' = closeWait \ {a}
  /\ status' = LISTENING
  /\ Log(<< Entry(<< "Neural Link synchronized. Welcome back, Sir." >>, "JARVIS",
                  NoSources) >>)
  /\ isLive' = TRUE
  /\ processors' = IF inputAudioContextRef # 0 /\ streamRef # 0 /\ inputAnalyserRef # 0
                   THEN processors \cup {a} ELSE processors
  \* the session promise resolves: the callbacks waiting on it run in order
  /\ sent' = [sent EXCEPT ![a] = @ \o Delivered(thens[a], "open")]
  /\ thens' = [thens EXCEPT ![a] = << >>]
  /\ UNCHANGED << activeProfile, streamRef, sessionPromiseRef, apiKey, now, att,
                  attProfile, liveTracks, frameNo, ctxVars, playVars, textVars,
                  rafVars, countVars >>

\* the promise of ai.live.connect rejects: nothing awaits or catches it
ConnectReject(a) ==
  /\ sess[a] = "connecting"
  /\ sess' = [sess EXCEPT ![a] = "rejected"]
  /\ closeWait' = closeWait \ {a}
  \* the callbacks waiting on the promise are never called
  /\ thens' = [thens EXCEPT ![a] = << >>]
  /\ UNCHANGED << status, logs, isLive, activeProfile, streamRef, sessionPromiseRef,
                  apiKey, processors, frameNo, sent, now, att, attProfile, closeReq, liveTracks, appended,
                  ctxVars, playVars, textVars, rafVars, countVars >>

\* onerror: (e) => handleSystemError(e.message)
OnError(a, message) ==
  /\ sess[a] \in {"connecting", "open"}
  /\ sess' = [sess EXCEPT ![a] = "errored"]
  /\ HandleSystemError(<< >>, message)
  /\ UNCHANGED << activeProfile, streamRef, sessionPromiseRef, apiKey, capVars, now, att,
                  attProfile, closeReq, closeWait, liveTracks, animationFrameRef,
                  rafNext, freqData, tapData, ctxVars, playVars, textVars, countVars >>

\* onclose without its cancelAnimationFrame
MutOnClose(a) ==
  /\ sess[a] \in {"open", "errored"}
  /\ sess' = [sess EXCEPT ![a] = "closed"]
  /\ isLive' = FALSE
  /\ status' = STANDBY
  /\ Log(<< Sys(<< "Session link lost." >>) >>)
  /\ UNCHANGED << activeProfile, streamRef, sessionPromiseRef, apiKey, capVars, now, att,
                  attProfile, closeReq, closeWait, liveTracks, ctxVars, playVars,
                  textVars, rafVars, countVars >>

\* onclose
OnClose(a) ==
  /\ sess[a] \in {"open", "errored"}
  /\ sess' = [sess EXCEPT ![a] = "closed"]
  /\ isLive' = FALSE
  /\ status' = STANDBY
  /\ Log(<< Sys(<< "Session link lost." >>) >>)
  /\ rafPending' = CancelFrame(rafPending, animationFrameRef)
  /\ UNCHANGED << activeProfile, streamRef, sessionPromiseRef, apiKey, capVars, now, att,
                  attProfile, closeReq, closeWait, liveTracks, animationFrameRef,
                  rafNext, freqData, tapData, ctxVars, playVars, textVars, countVars >>

(***************************************************************************)
(* onmessage                                                               *)
(***************************************************************************)
\* the user entry logged whether or not there is user text
MutTurnEntries(turn, sources) ==
  << Entry(turn.input, "USER", NoSources) >>
  \o
  (IF turn.output # << >> THEN << Entry(turn.output, "JARVIS", sources) >> ELSE << >>)

\* the entries finalization passes to addLog
TurnEntries(turn, sources) ==
  (IF turn.input # << >> THEN << Entry(turn.input, "USER", NoSources) >> ELSE << >>)
  \o
  (IF turn.output # << >> THEN << Entry(turn.output, "JARVIS", sources) >> ELSE << >>)

\* the list emptied only when the turn had model text to attach it to
MutSourcesAfterTurn ==
  IF currentTranscriptionRef.output = << >> THEN currentSourcesRef ELSE << >>

\* currentSourcesRef.current = []
SourcesAfterTurn == << >>

\* the deltas of the message left out of the buffers
MutAddDeltas(turn, m) == turn

\* currentTranscriptionRef.current.input += ..., .output += ...: done before
\* the turnComplete test
AddDeltas(turn, m) ==
  [input |-> turn.input \o m.input, output |-> turn.output \o m.output]

InterruptEntry == Sys(<< "Interruption detected. Resetting..." >>)

\* the handler up to its end, or up to the await of decodeAudioData
OnMessage(a, m) ==
  /\ sess[a] = "open"
  /\ a \notin closeReq
  /\ msgCount' = msgCount + 1
  /\ LET arr == msgCount + 1
         src1 == AddSources(currentSourcesRef, NewSources(m.grounding))
         turn1 == AddDeltas(currentTranscriptionRef, m)
         final == IF m.turnComplete THEN TurnEntries(turn1, src1) ELSE << >>
         play == m.audio # 0 /\ outputAudioContextRef # 0 /\ outputAnalyserRef # 0
         intr == ~play /\ m.interrupted
     IN
     /\ currentTranscriptionRef' = IF m.turnComplete THEN EmptyTurn ELSE turn1
     /\ currentSourcesRef' = IF m.turnComplete THEN SourcesAfterTurn ELSE src1
     /\ turnMsgs' = IF m.turnComplete THEN << >> ELSE Append(turnMsgs, m)
     /\ finals' = IF m.turnComplete
                  THEN Append(finals, [msgs |-> Append(turnMsgs, m),
                                       logged |-> final,
                                       turn |-> currentTranscriptionRef',
                                       sources |-> currentSourcesRef'])
                  ELSE finals
     /\ Log(final \o (IF intr THEN << InterruptEntry >> ELSE << >>))
     /\ status' = IF play THEN SPEAKING ELSE IF intr THEN LISTENING ELSE status
     /\ nextStartTimeRef' =
          IF play THEN CursorOnArrival(nextStartTimeRef, CtxTime(outputAudioContextRef))
          ELSE IF intr THEN CursorAfterFlush ELSE nextStartTimeRef
     /\ decoding' =
          IF play
          THEN decoding \cup {[arr |-> arr, ctx |-> outputAudioContextRef,
                               dur |-> m.audio, interrupted |-> m.interrupted]}
          ELSE decoding
     /\ activeSourcesRef' = IF intr THEN ActiveAfterFlush(activeSourcesRef)
                            ELSE activeSourcesRef
     /\ nodes' = IF intr THEN StopSources(nodes, activeSourcesRef) ELSE nodes
     /\ flushes' = IF intr THEN Append(flushes, FlushRec("interrupted", arr))
                   ELSE flushes
     /\ intrArr' = IF intr THEN arr ELSE intrArr
  /\ UNCHANGED << isLive, activeProfile, streamRef, sessionPromiseRef, apiKey, capVars, now,
                  att, liveTracks, started, dropped, stops, profileChanges, ctxVars, rafVars,
                  remoteVars >>

\* the node sourceNode.start(at) creates: it plays from at, or from now when
\* at is already past, for its buffer's duration
NewNode(k, at) ==
  [ctx |-> k.ctx, start |-> at, dur |-> k.dur, state |-> "playing",
   endAt |-> Max(at, CtxTime(k.ctx)) + k.dur]

\* decodeAudioData settles: any suspended handler may be the next to resume
DecodeSettles(k) == k \in decoding

\* decodeAudioData resolves: the handler from createBufferSource to its end
DecodeDone(k) ==
  /\ DecodeSettles(k)
  /\ decoding' = decoding \ {k}
  /\ LET at == nextStartTimeRef
         active1 == activeSourcesRef \cup {k.arr}
         nodes1 == (k.arr :> NewNode(k, at)) @@ nodes
     IN
     /\ started' = Append(started,
                     [arr |-> k.arr, start |-> at, dur |-> k.dur, ctx |-> k.ctx,
                      epoch |-> Len(flushes), stale |-> k.arr < intrArr])
     /\ IF k.interrupted
        THEN /\ nodes' = StopSources(nodes1, active1)
             /\ activeSourcesRef' = ActiveAfterFlush(active1)
             /\ nextStartTimeRef' = CursorAfterFlush
             /\ status' = LISTENING
             /\ Log(<< InterruptEntry >>)
             /\ flushes' = Append(flushes,
                             [FlushRec("interrupted", k.arr) EXCEPT !.stopped = active1])
             /\ intrArr' = Max(intrArr, k.arr)
        ELSE /\ nodes' = nodes1
             /\ activeSourcesRef' = active1
             /\ nextStartTimeRef' = CursorAfterStart(at, k.dur)
             /\ UNCHANGED << status, logs, appended, flushes, intrArr >>
  /\ UNCHANGED << isLive, activeProfile, streamRef, sessionPromiseRef, apiKey, capVars, now,
                  att, liveTracks, dropped, ctxVars, textVars, rafVars, remoteVars,
                  countVars >>

\* the rejection treated as a fatal error: handleSystemError
MutDecodeFail(k) ==
  /\ DecodeSettles(k)
  /\ decoding' = decoding \ {k}
  /\ dropped' = dropped \cup {k.arr}
  /\ HandleSystemError(<< >>, "decode failed")
  /\ UNCHANGED << activeProfile, streamRef, sessionPromiseRef,
                  apiKey, capVars, now, att, liveTracks, nextStartTimeRef,
                  activeSourcesRef, nodes, started, flushes, intrArr, ctxVars,
                  textVars, animationFrameRef, rafNext, freqData, tapData,
                  remoteVars, countVars >>

\* decodeAudioData rejects: the handler ends there, its promise is dropped
DecodeFail(k) ==
  /\ DecodeSettles(k)
  /\ decoding' = decoding \ {k}
  /\ dropped' = dropped \cup {k.arr}
  /\ UNCHANGED << status, logs, isLive, activeProfile, streamRef, sessionPromiseRef,
                  apiKey, capVars, now, att, liveTracks, appended, nextStartTimeRef,
                  activeSourcesRef, nodes, started, flushes, intrArr, ctxVars,
                  textVars, rafVars, remoteVars, countVars >>

\* the listener only removes the source: the status is left as it is
MutEnded(n) ==
  /\ n \in DOMAIN nodes
  /\ \/ nodes[n].state = "stopped"
     \/ nodes[n].state = "playing" /\ CtxTime(nodes[n].ctx) >= nodes[n].endAt
  /\ nodes' = [nodes EXCEPT ![n].state = "ended"]
  /\ activeSourcesRef' = activeSourcesRef \ {n}
  /\ UNCHANGED << status, logs, isLive, activeProfile, streamRef, sessionPromiseRef,
                  apiKey, capVars, now, att, liveTracks, appended, nextStartTimeRef, decoding,
                  started, dropped, flushes, intrArr, ctxVars, textVars, rafVars, remoteVars,
                  countVars >>

\* the 'ended' event of a source: its buffer played to the end, or it was stopped
Ended(n) ==
  /\ n \in DOMAIN nodes
  /\ \/ nodes[n].state = "stopped"
     \/ nodes[n].state = "playing" /\ CtxTime(nodes[n].ctx) >= nodes[n].endAt
  /\ nodes' = [nodes EXCEPT ![n].state = "ended"]
  /\ activeSourcesRef' = activeSourcesRef \ {n}
  /\ status' = IF activeSourcesRef \ {n} = {} THEN LISTENING ELSE status
  /\ UNCHANGED << logs, isLive, activeProfile, streamRef, sessionPromiseRef, apiKey, capVars,
                  now, att, liveTracks, appended, nextStartTimeRef, decoding, started,
                  dropped, flushes, intrArr, ctxVars, textVars, rafVars, remoteVars, countVars >>

(***************************************************************************)
(* stopSession, changeProfile, the tick loop and the clock                 *)
(***************************************************************************)
\* setStatus(SystemStatus.STANDBY) of stopSession
StatusAfterStop == STANDBY

\* streamRef.current.getTracks().forEach(track => track.stop())
TracksAfterStop(tracks, stream) == IF stream # 0 THEN tracks \ {stream} ELSE tracks

StopSession ==
  /\ stops' = stops + 1
  \* sessionPromiseRef.current.then(session => session.close())
  /\ LET s == sessionPromiseRef IN
     /\ closeReq' = IF s # 0 /\ sess[s] \in {"open", "errored", "closed"}
                    THEN closeReq \cup {s} ELSE closeReq
     /\ closeWait' = IF s # 0 /\ sess[s] = "connecting"
                     THEN closeWait \cup {s} ELSE closeWait
  /\ liveTracks' = TracksAfterStop(liveTracks, streamRef)
  \* stopAllAudio()
  /\ nodes' = StopSources(nodes, activeSourcesRef)
  /\ activeSourcesRef' = ActiveAfterFlush(activeSourcesRef)
  /\ nextStartTimeRef' = CursorAfterFlush
  /\ flushes' = Append(flushes, FlushRec("stop", msgCount))
  /\ isLive' = FALSE
  /\ status' = StatusAfterStop
  /\ rafPending' = CancelFrame(rafPending, animationFrameRef)
  /\ Log(<< Sys(<< "Entering Standby Mode." >>) >>)
  /\ UNCHANGED << activeProfile, streamRef, sessionPromiseRef, apiKey, capVars, now, att,
                  attProfile, sess, decoding, started, dropped, intrArr, animationFrameRef,
                  rafNext, freqData, tapData, profileChanges, msgCount, ctxVars, textVars >>

\* the new profile pushed into the attempts already started
MutChangeProfile(profile) ==
  /\ profileChanges' = profileChanges + 1
  /\ activeProfile' = profile
  /\ attProfile' = [a \in Att |-> IF att[a] # "none" THEN profile ELSE attProfile[a]]
  /\ Log(<< Sys(<< "Recalibrating for: ", profile >>) >>
         \o (IF isLive
             THEN << Sys(<< "Note: Neural sync required to update profile instructions fully." >>) >>
             ELSE << >>))
  /\ UNCHANGED << status, isLive, streamRef, sessionPromiseRef, apiKey, capVars, now, att,
                  liveTracks, stops, msgCount, ctxVars, playVars, textVars, rafVars,
                  sess, closeReq, closeWait >>

\* setActiveProfile(profile) and the entries changeProfile logs
ChangeProfile(profile) ==
  /\ profileChanges' = profileChanges + 1
  /\ activeProfile' = profile
  /\ Log(<< Sys(<< "Recalibrating for: ", profile >>) >>
         \o (IF isLive
             THEN << Sys(<< "Note: Neural sync required to update profile instructions fully." >>) >>
             ELSE << >>))
  /\ UNCHANGED << status, isLive, streamRef, sessionPromiseRef, apiKey, capVars, now, att,
                  liveTracks, stops, msgCount, ctxVars, playVars, textVars, rafVars,
                  remoteVars >>

\* scriptProcessor.onaudioprocess of the pipeline that onopen of session p
\* wired: the frame goes to whatever session promise the ref holds now
AudioProcess(p) ==
  /\ p \in processors
  /\ frameNo' = frameNo + 1
  /\ LET s == sessionPromiseRef
         f == [from |-> p, no |-> frameNo + 1,
               waited |-> s # 0 /\ sess[s] = "connecting",
               late |-> s \in closeReq \cup closeWait]
     IN
     /\ thens' = IF s # 0 /\ sess[s] = "connecting"
                 THEN [thens EXCEPT ![s] = Enqueue(@, f)] ELSE thens
     /\ sent' = IF s # 0 /\ sess[s] \in {"open", "errored", "closed"}
                THEN [sent EXCEPT ![s] = @ \o Delivered(<< f >>, sess[s])] ELSE sent
  /\ UNCHANGED << status, logs, isLive, activeProfile, streamRef, sessionPromiseRef,
                  apiKey, processors, now, att, liveTracks, appended, ctxVars,
                  playVars, textVars, rafVars, remoteVars, countVars >>

\* a scheduled animation frame fires: updateVisualization
Tick(id, inData, outData) ==
  /\ id \in rafPending
  /\ freqData' = CombinedData(inputAnalyserRef, inData, outputAnalyserRef, outData)
  /\ tapData' = [in |-> inData, out |-> outData]
  /\ animationFrameRef' = rafNext
  /\ rafPending' = (rafPending \ {id}) \cup {rafNext}
  /\ rafNext' = rafNext + 1
  /\ UNCHANGED << status, logs, isLive, activeProfile, streamRef, sessionPromiseRef,
                  apiKey, capVars, now, att, liveTracks, appended, ctxVars, playVars, textVars,
                  remoteVars, countVars >>

\* time passes on every audio clock
Advance ==
  /\ now' = now + 1
  /\ UNCHANGED << status, logs, isLive, activeProfile, streamRef, sessionPromiseRef,
                  apiKey, capVars, att, liveTracks, appended, ctxVars, playVars, textVars,
                  rafVars, remoteVars, countVars >>

ErrorMessages == {"socket closed"}
GumErrors == {"Permission denied", ""}

(***************************************************************************)
(* The steps of the component, each under the bounds of a run              *)
(***************************************************************************)
Start(maxStarts, maxRaf) ==
  \/ StartSessionLive
  \/ Starts < maxStarts /\ StartSessionNoKey
  \/ Starts < maxStarts /\ rafNext <= maxRaf /\ StartSession
  \/ \E a \in Att : GumResolve(a)
  \/ \E a \in Att, e \in GumErrors : GumReject(a, e)

\* a startSession of a build that has its key, and the resolution of its
\* getUserMedia
Restart(maxStarts, maxRaf) ==
  \/ Starts < maxStarts /\ rafNext <= maxRaf /\ StartSession
  \/ \E a \in Att : GumResolve(a)

Handshake ==
  \/ \E a \in Att : OnOpen(a)
  \/ \E a \in Att : ConnectReject(a)

\* the remote end closes a session
RemoteClose == \E a \in Att : OnClose(a)

Remote ==
  \/ \E a \in Att, e \in ErrorMessages : OnError(a, e)
  \/ RemoteClose

Receive(ms, maxMsgs) ==
  \E a \in Att, m \in ms : msgCount < maxMsgs /\ OnMessage(a, m)

Playback(maxTime) ==
  \/ \E k \in decoding : DecodeDone(k)
  \/ \E k \in decoding : DecodeFail(k)
  \/ \E n \in DOMAIN nodes : Ended(n)
  \/ now < maxTime /\ Advance

Stop(maxStops) == stops < maxStops /\ StopSession

\* the POWER DOWN button, which is rendered only while isLive
PowerDown == isLive /\ StopSession

Profile(maxChanges) ==
  \E p \in Profiles : profileChanges < maxChanges /\ ChangeProfile(p)

Frames(maxRaf) ==
  \E id \in rafPending, i \in Spectra, o \in Spectra :
    rafNext <= maxRaf /\ Tick(id, i, o)

Capture(maxFrames) ==
  \E p \in processors : frameNo < maxFrames /\ AudioProcess(p)

Next ==
  \/ Start(MaxStarts, MaxRaf)
  \/ Handshake
  \/ Remote
  \/ Receive(Msgs, MaxMsgs)
  \/ Playback(MaxTime)
  \/ Stop(MaxStops)
  \/ Profile(MaxProfileChanges)
  \/ Frames(MaxRaf)
  \/ Capture(MaxCapture)

Spec == Init /\ [][Next]_vars

\* A session that has just opened: the state after startSession, the
\* resolution of getUserMedia and onopen, in a build with the API key set
InitPlay ==
  /\ status = LISTENING
  /\ logs = Stamp(<< Sys(<< "Bypassing standard security protocols..." >>),
                     Sys(<< "Establishing neural link v5.0..." >>),
                     Entry(<< "Neural Link synchronized. Welcome back, Sir." >>,
                           "JARVIS", NoSources) >>, 0)
  /\ appended = logs
  /\ turnMsgs = << >>
  /\ finals = << >>
  /\ isLive = TRUE
  /\ activeProfile = "Standard Operations"
  /\ freqData = Silence
  /\ tapData = [in |-> Silence, out |-> Silence]
  /\ inputAudioContextRef = 1
  /\ outputAudioContextRef = 1
  /\ inputAnalyserRef = 1
  /\ outputAnalyserRef = 1
  /\ nextStartTimeRef = 0
  /\ activeSourcesRef = {}
  /\ streamRef = 1
  /\ sessionPromiseRef = 1
  /\ currentTranscriptionRef = EmptyTurn
  /\ currentSourcesRef = << >>
  /\ animationFrameRef = 1
  /\ apiKey = TRUE
  /\ now = 0
  /\ ctxBorn = [a \in Att |-> 0]
  /\ att = [a \in Att |-> IF a = 1 THEN "connected" ELSE "none"]
  /\ attProfile = [a \in Att |-> IF a = 1 THEN "Standard Operations" ELSE ""]
  /\ sess = [a \in Att |-> IF a = 1 THEN "open" ELSE "none"]
  /\ closeReq = {}
  /\ closeWait = {}
  /\ liveTracks = {1}
  /\ rafPending = {1}
  /\ rafNext = 2
  /\ processors = {1}
  /\ nodes = << >>
  /\ decoding = {}
  /\ msgCount = 0
  /\ frameNo = 0
  /\ thens = [a \in Att |-> << >>]
  /\ sent = [a \in Att |-> << >>]
  /\ started = << >>
  /\ dropped = {}
  /\ flushes = << >>
  /\ intrArr = 0
  /\ stops = 0
  /\ profileChanges = 0

\* the playback of an open session: every step that reads or writes the
\* playback cursor, the in-flight set or the output clock
NextPlay ==
  \/ RemoteClose
  \/ Receive(AudioMsgs, MaxPlayMsgs)
  \/ Playback(MaxPlayTime)
  \/ PowerDown

SpecPlay == InitPlay /\ [][NextPlay]_vars

\* the transcript of an open session: every step that reads or writes the
\* transcript buffers or the source list, with the events that end the session
NextText ==
  \/ Remote
  \/ Receive(TextMsgs, MaxTextMsgs)
  \/ PowerDown

SpecText == InitPlay /\ [][NextText]_vars

\* a source whose buffer has not played to its end yet
Playing ==
  \E n \in DOMAIN nodes :
    nodes[n].state = "playing" /\ CtxTime(nodes[n].ctx) < nodes[n].endAt

\* the audio clock runs on while a source plays
Tock == Playing /\ Advance

\* an open session that is left alone: chunks arrive, are decoded and play out
NextDrain ==
  \/ Receive(AudioMsgs, MaxDrainMsgs)
  \/ \E k \in decoding : DecodeDone(k)
  \/ \E k \in decoding : DecodeFail(k)
  \/ \E n \in DOMAIN nodes : Ended(n)
  \/ Tock

\* the event loop runs every task that is ready, and the audio clock runs
SpecDrain ==
  /\ InitPlay
  /\ [][NextDrain]_vars
  /\ WF_vars(\E k \in decoding : DecodeDone(k) \/ DecodeFail(k))
  /\ WF_vars(\E n \in DOMAIN nodes : Ended(n))
  /\ WF_vars(Tock)

\* the tick loop of an open session, with the events that end the session
NextViz ==
  \/ Frames(MaxVizRaf)
  \/ Remote
  \/ PowerDown

SpecViz == InitPlay /\ [][NextViz]_vars

\* an open session until it ends: messages, playback, remote error and close
NextLive ==
  \/ Remote
  \/ Receive(AudioMsgs, MaxMsgs)
  \/ Playback(MaxTime)
  \/ PowerDown

SpecLive == InitPlay /\ [][NextLive]_vars

\* start-up: startSession to the opening of the session, with the tick loop
\* it starts and stopSession
NextBoot ==
  \/ Start(MaxStarts, MaxRaf)
  \/ Handshake
  \/ Frames(MaxRaf)
  \/ Stop(MaxStops)

SpecBoot == Init /\ [][NextBoot]_vars

\* faults: start-up and an open session that receives audio, with the tick
\* loop and the remote error and close
NextFault ==
  \/ Start(MaxStarts, MaxRaf)
  \/ Handshake
  \/ Remote
  \/ Receive(AudioMsgs, MaxMsgs)
  \/ Frames(MaxRaf)

SpecFault == Init /\ [][NextFault]_vars

\* profile changes around start-up and stopSession
NextProfile ==
  \/ Start(MaxStarts, MaxRaf)
  \/ Handshake
  \/ Profile(MaxProfileChanges)
  \/ Stop(MaxStops)

SpecProfile == Init /\ [][NextProfile]_vars

\* an open session whose turns can be interrupted: transcript, grounding,
\* audio and interruption messages, with the events that end the session
NextTurn ==
  \/ Receive(Msgs, MaxTurnMsgs)
  \/ RemoteClose
  \/ PowerDown

SpecTurn == InitPlay /\ [][NextTurn]_vars

\* the capture pipeline across sessions: start-up, the opening of a session,
\* its end by stopSession or by the remote end, and a later startSession
NextCapture ==
  \/ Restart(MaxAttempts, MaxVizRaf)
  \/ Handshake
  \/ RemoteClose
  \/ PowerDown
  \/ Capture(MaxFrames)

SpecCapture == InitPlay /\ [][NextCapture]_vars

\* startSession invoked again: start-up, the tick loops, the opening of a
\* session, its end by stopSession or by the remote end, and a later start-up
NextAgain ==
  \/ Start(MaxAttempts, MaxAgainRaf)
  \/ Handshake
  \/ Remote
  \/ PowerDown
  \/ Frames(MaxAgainRaf)

SpecAgain == Init /\ [][NextAgain]_vars

\* the handling of one message after another in an open session: transcript,
\* grounding, turn-complete, audio and interruption, with playback and the
\* events that end the session
NextMessage ==
  \/ Receive(Msgs, MaxTurnMsgs)
  \/ Playback(MaxPlayTime)
  \/ RemoteClose
  \/ PowerDown

SpecMessage == InitPlay /\ [][NextMessage]_vars

\* A console that already holds up to LogCap entries, left by as many profile
\* changes before any session was started
AltProfile(i) == IF i % 2 = 1 THEN "Deep Search" ELSE "Standard Operations"

InitLog ==
  /\ Unstarted
  /\ \E n \in 0..LogCap :
       /\ logs = Stamp([i \in 1..n |-> Sys(<< "Recalibrating for: ", AltProfile(i) >>)], 0)
       /\ activeProfile = AltProfile(n)
  /\ appended = logs

NextLog == Profile(MaxAppends)

SpecLog == InitLog /\ [][NextLog]_vars

(***************************************************************************)
(* Properties                                                              *)
(***************************************************************************)
Last(q) == q[Len(q)]

\* C1: of two chunks handed to sourceNode.start one after the other with no
\* flush between them, the later one is given a start time that is at least
\* the earlier one's start time plus the earlier one's duration, in whatever
\* order their decodes completed.
C1_BackToBack ==
  \A i \in 1..(Len(started) - 1) :
    started[i].epoch = started[i + 1].epoch
      => started[i + 1].start >= started[i].start + started[i].dur

\* two chunks of one epoch, started in the reverse of their arrival order
C1_Witness ==
  \E i \in 1..(Len(started) - 1) :
    /\ started[i].epoch = started[i + 1].epoch
    /\ started[i].arr > started[i + 1].arr

\* C2: of two chunks scheduled with no flush between them, the one whose
\* message arrived first is given the earlier start time.
C2_ArrivalOrder ==
  \A i, j \in DOMAIN started :
    (started[i].epoch = started[j].epoch /\ started[i].arr < started[j].arr)
      => started[i].start < started[j].start

\* C3: a buffer started after a flush is given a start time that is at least
\* the time the output clock showed at that flush.
C3_NotBeforeFlush ==
  \A i \in DOMAIN started :
    LET e == started[i] IN
      (e.epoch > 0 /\ flushes[e.epoch].ctx = e.ctx)
        => e.start >= flushes[e.epoch].at - ctxBorn[e.ctx]

SystemEntries(q) == Len(SelectSeq(q, LAMBDA e : e.sender = "SYSTEM"))

InterruptionHandled ==
  /\ Len(flushes') = Len(flushes) + 1
  /\ Last(flushes').by = "interrupted"

C5_NoStaleAudio == \A i \in DOMAIN started : ~started[i].stale

\* what a turn's messages carry, in arrival order
RECURSIVE UserText(_)
UserText(ms) == IF ms = << >> THEN << >> ELSE Head(ms).input \o UserText(Tail(ms))

RECURSIVE ModelText(_)
ModelText(ms) == IF ms = << >> THEN << >> ELSE Head(ms).output \o ModelText(Tail(ms))

RECURSIVE WebSources(_)
WebSources(ms) ==
  IF ms = << >> THEN << >>
  ELSE [i \in 1..Len(SelectSeq(Head(ms).grounding, LAMBDA c : c.web)) |->
          LET c == SelectSeq(Head(ms).grounding, LAMBDA d : d.web)[i]
          IN  [title |-> IF c.title = "" THEN "Source" ELSE c.title, uri |-> c.uri]]
       \o WebSources(Tail(ms))

Finalized == Len(finals') = Len(finals) + 1

\* the entries the step passed to addLog
NewEntries == SubSeq(appended', Len(appended) + 1, Len(appended'))

From(sender, q) == SelectSeq(q, LAMBDA e : e.sender = sender)

Plain(e) == [message |-> e.message, sender |-> e.sender, sources |-> e.sources]

\* C6: a finalization appends a USER entry iff the user text accumulated since
\* the last finalization is not empty and a JARVIS entry iff the model text
\* is not empty, and leaves both buffers and the source list empty.
C6_Finalization ==
  [][Finalized =>
       /\ Len(From("USER", NewEntries)) =
            IF UserText(Last(finals').msgs) # << >> THEN 1 ELSE 0
       /\ Len(From("JARVIS", NewEntries)) =
            IF ModelText(Last(finals').msgs) # << >> THEN 1 ELSE 0
       /\ currentTranscriptionRef' = [input |-> << >>, output |-> << >>]
       /\ currentSourcesRef' = << >>]_vars

\* a turn with user text and no model text was finalized: one USER entry
C6_Witness ==
  /\ finals # << >>
  /\ UserText(Last(finals).msgs) # << >>
  /\ ModelText(Last(finals).msgs) = << >>
  /\ Last(appended).sender = "USER"
  /\ currentTranscriptionRef.input = << >>

\* C7: a finalization with both texts not empty adds exactly two entries to
\* the log: the USER entry with the user deltas concatenated in arrival order,
\* then the JARVIS entry with the model deltas concatenated in arrival order
\* and the turn's grounding sources in arrival order.
C7_TwoEntries ==
  [][(/\ Finalized
      /\ UserText(Last(finals').msgs) # << >>
      /\ ModelText(Last(finals').msgs) # << >>) =>
       LET ms == Last(finals').msgs
           n == Len(logs')
       IN  /\ Len(appended') = Len(appended) + 2
           /\ n = IF Len(logs) + 2 <= LogCap THEN Len(logs) + 2 ELSE LogCap
           /\ Plain(logs'[n - 1]) = Entry(UserText(ms), "USER", NoSources)
           /\ Plain(logs'[n]) = Entry(ModelText(ms), "JARVIS", WebSources(ms))]_vars

\* a turn of two model deltas and sources from two messages was finalized
C7_Witness ==
  /\ finals # << >>
  /\ UserText(Last(finals).msgs) # << >>
  /\ Len(ModelText(Last(finals).msgs)) = 2
  /\ Len(WebSources(Last(finals).msgs)) = 2
  /\ Len(logs) >= 2
  /\ logs[Len(logs)].sender = "JARVIS"
  /\ logs[Len(logs)].sources = WebSources(Last(finals).msgs)

\* C8: the log holds the most recent min(n, 50) of the n entries appended, in
\* the order they were appended.
C8_MostRecent ==
  /\ Len(logs) = IF Len(appended) <= LogCap THEN Len(appended) ELSE LogCap
  /\ \A i \in 1..Len(logs) : logs[i] = appended[Len(appended) - Len(logs) + i]

\* two entries were appended to a full log
C8_Witness ==
  /\ Len(appended) = LogCap + 2
  /\ Len(logs) = LogCap
  /\ logs[1].id = 3

StopReturned == stops' = stops + 1

\* C9: stopSession returns with the status Standby, isLive false and the
\* in-flight set empty, whatever the status was, and no remote session has
\* had to change state for it.
C9_Stop ==
  [][StopReturned =>
       /\ status' = STANDBY
       /\ isLive' = FALSE
       /\ activeSourcesRef' = {}
       /\ sess' = sess]_vars

\* stopSession returned while a source was playing and the session was open
C9_Witness ==
  /\ flushes # << >>
  /\ Last(flushes).by = "stop"
  /\ Last(flushes).from = SPEAKING
  /\ Last(flushes).stopped # {}
  /\ status = STANDBY
  /\ \E a \in Att : sess[a] = "open" /\ a \in closeReq

\* C10: whenever the status is Standby no tick callback is scheduled, no
\* capture stream is live and nothing is in flight.
C10_TeardownComplete ==
  status = STANDBY => (rafPending = {} /\ liveTracks = {} /\ activeSourcesRef = {})

\* the step ran handleSystemError: its entry is the last one appended
ErrorHandled ==
  /\ Len(appended') > Len(appended)
  /\ Last(appended').message[1] = "Critical System Error: "

\* C11: handleSystemError leaves the status Error, its entry is a System entry
\* carrying the underlying message, and after it no tick callback is
\* scheduled, no capture stream is live and nothing is in flight.
C11_ErrorTeardown ==
  [][ErrorHandled =>
       /\ status' = ERROR
       /\ Last(appended').sender = "SYSTEM"
       /\ Len(Last(appended').message) = 2
       /\ rafPending' = {}
       /\ liveTracks' = {}
       /\ activeSourcesRef' = {}]_vars

\* a startSession invocation ended at the credential test
NoKeyStart == \E a \in Att : att[a] = "none" /\ att'[a] = "failed"

\* what a startSession that ends at the credential test leaves alone: no
\* audio context, no stream, no animation frame, no remote session
NothingAcquired ==
  /\ UNCHANGED << ctxVars, streamRef, liveTracks, sessionPromiseRef, sess, rafNext,
                  animationFrameRef >>
  /\ rafPending' \subseteq rafPending

MissingKeyEntry ==
  Sys(<< "Critical System Error: ", "Security handshake failed. API Key missing." >>)

\* C12 as stated: startSession without an API key ends in Error, appends one
\* System entry and nothing else, and acquires nothing.
C12_OneEntry ==
  [][NoKeyStart =>
       /\ status' = ERROR
       /\ Len(NewEntries) = 1
       /\ Plain(NewEntries[1]) = MissingKeyEntry
       /\ NothingAcquired]_vars

\* C12, amended: startSession without an API key ends in Error, appends two
\* System entries, the start-up entry and then the one naming the missing
\* key, and acquires nothing.
C12_TwoEntries ==
  [][NoKeyStart =>
       /\ status' = ERROR
       /\ Len(NewEntries) = 2
       /\ Plain(NewEntries[1]) = Sys(<< "Bypassing standard security protocols..." >>)
       /\ Plain(NewEntries[2]) = MissingKeyEntry
       /\ NothingAcquired]_vars

\* startSession was invoked without an API key
C12_Witness ==
  /\ ~apiKey
  /\ \E a \in Att : att[a] = "failed"
  /\ status = ERROR
  /\ Len(appended) = 2
  /\ inputAudioContextRef = 0
  /\ rafNext = 1

GumRejected(a) == att[a] = "gum" /\ att'[a] = "failed"

\* C13: the step in which getUserMedia rejects takes the status to Error (from
\* Initializing when nothing else happened since the start), and an attempt
\* that failed never has a remote session.
C13_DeviceDenied ==
  [][\A a \in Att :
       /\ att'[a] = "failed" => sess'[a] = "none"
       /\ GumRejected(a) => status' = ERROR]_vars

\* getUserMedia was denied while the status was Initializing
C13_Witness ==
  /\ apiKey
  /\ \E a \in Att : att[a] = "failed" /\ sess[a] = "none"
  /\ status = ERROR
  /\ Len(appended) = 2
  /\ Last(appended).message = << "Critical System Error: ", "Permission denied" >>

\* the step handled a message with inline audio
AudioArrived == Cardinality(decoding') > Cardinality(decoding)

\* C14: a chunk that arrives in Listening makes the status Speaking, and
\* whenever the status is Speaking with a source in flight the status is
\* Listening again later, when the last source of the set has ended.
C14_Drain ==
  /\ [][(AudioArrived /\ status = LISTENING) => status' = SPEAKING]_vars
  /\ (status = SPEAKING /\ activeSourcesRef # {}) ~> (status = LISTENING)

\* a chunk of duration 2 played to its end with no flush, and the status is
\* Listening
C14_Witness ==
  /\ status = LISTENING
  /\ flushes = << >>
  /\ \E n \in DOMAIN nodes :
       /\ nodes[n].state = "ended"
       /\ nodes[n].dur = 2
       /\ CtxTime(nodes[n].ctx) >= nodes[n].endAt

\* a fatal fault was reported: getUserMedia rejected, or onerror fired
Fault ==
  \E a \in Att :
    \/ GumRejected(a)
    \/ sess[a] \in {"connecting", "open"} /\ sess'[a] = "errored"

\* C15: a fault reported while the status is Initializing, Connecting,
\* Listening or Speaking leaves the status Error.
C15_FaultToError ==
  [][(Fault /\ status \in {INITIALIZING, CONNECTING, LISTENING, SPEAKING})
       => status' = ERROR]_vars

\* onerror fired while the status was Speaking: the one chunk that arrived
\* is still being decoded
C15_Witness ==
  /\ status = ERROR
  /\ stops = 0
  /\ msgCount = 1
  /\ decoding # {}
  /\ \E a \in Att : sess[a] = "errored"

\* C16: from Error the status goes nowhere but to Standby.
C16_ErrorTerminal ==
  [][status = ERROR => status' \in {ERROR, STANDBY}]_vars

ProfileChanged == profileChanges' = profileChanges + 1

\* C17: changeProfile leaves the status, isLive, the session handle and the
\* sessions, the playback queue and the transcript buffers as they are, and
\* the profile an attempt connects with is the one that was current when its
\* startSession ran, whatever changeProfile does afterwards.
C17_NoHotReconfigure ==
  [][/\ ProfileChanged =>
          UNCHANGED << status, isLive, sessionPromiseRef, sess, closeReq, closeWait,
                       nextStartTimeRef, activeSourcesRef, nodes, decoding,
                       currentTranscriptionRef, currentSourcesRef >>
     /\ \A a \in Att :
          /\ (att[a] = "none" /\ att'[a] = "gum") => attProfile'[a] = activeProfile
          /\ att[a] # "none" => attProfile'[a] = attProfile[a]]_vars

\* the profile was changed while a session opened under the other one is live
C17_Witness ==
  /\ isLive
  /\ profileChanges > 0
  /\ activeProfile = "Deep Search"
  /\ \E a \in Att : sess[a] = "open" /\ attProfile[a] = "Standard Operations"
  /\ Last(appended).message =
       << "Note: Neural sync required to update profile instructions fully." >>

\* updateVisualization ran in the step
Ticked == rafNext' = rafNext + 1

\* what a tap contributes to bin i: its magnitude, or 0 when there is no tap
TapOr0(tap, data, i) == IF tap # 0 THEN data[i] ELSE 0

\* C18: the vector a tick publishes has 128 bins, each between 0 and 255 and
\* equal to the larger of the two taps' magnitudes at that bin, a tap that
\* does not exist giving 0.
C18_Vector ==
  [][Ticked =>
       /\ DOMAIN freqData' = 0..127
       /\ \A i \in 0..127 :
            /\ freqData'[i] \in 0..255
            /\ freqData'[i] = Max(TapOr0(inputAnalyserRef', tapData'.in, i),
                                  TapOr0(outputAnalyserRef', tapData'.out, i))]_vars

\* a tick whose vector takes its low bins from one tap and its high bins from
\* the other
C18_Witness ==
  /\ tapData = [in |-> Tone, out |-> Hiss]
  /\ freqData[0] = 255
  /\ freqData[127] = 200

\* onclose ran for a session
Closed == \E a \in Att : sess[a] \in {"open", "errored"} /\ sess'[a] = "closed"

\* C19: onclose leaves the status Standby and isLive false, the animation
\* frame animationFrameRef names is no longer scheduled, and the one entry it
\* appends is a System entry.
C19_Close ==
  [][Closed =>
       /\ status' = STANDBY
       /\ isLive' = FALSE
       /\ animationFrameRef \notin rafPending'
       /\ rafPending' = rafPending \ {animationFrameRef}
       /\ Len(NewEntries) = 1
       /\ Plain(NewEntries[1]) = Sys(<< "Session link lost." >>)]_vars

\* the remote end closed a live session that nobody had stopped while a
\* chunk was being decoded, and the tick that was scheduled is not any more
C19_Witness ==
  /\ status = STANDBY
  /\ decoding # {}
  /\ ~isLive
  /\ stops = 0
  /\ \E a \in Att : sess[a] = "closed"
  /\ animationFrameRef # 0
  /\ rafPending = {}
  /\ Last(appended).message = << "Session link lost." >>

\* the promise of ai.live.connect rejected
HandshakeFailed == \E a \in Att : sess[a] = "connecting" /\ sess'[a] = "rejected"

\* C20: when the connect promise rejects while the status is Connecting the
\* status becomes Error and one System entry is appended.
C20_HandshakeFailure ==
  [][(HandshakeFailed /\ status = CONNECTING) =>
       /\ status' = ERROR
       /\ Len(NewEntries) = 1
       /\ NewEntries[1].sender = "SYSTEM"]_vars

\* decodeAudioData rejected in this step
DecodeRejected == dropped' # dropped

\* C21: a chunk whose decode is rejected is never started, the rejection
\* neither moves the status to Error nor clears isLive nor ends the session,
\* and a chunk whose decode resolves afterwards is still started.
C21_DecodeNonFatal ==
  [][/\ DecodeRejected =>
          /\ status # ERROR => status' # ERROR
          /\ isLive => isLive'
          /\ started' = started
          /\ sess' = sess
     /\ \A i \in DOMAIN started' : started'[i].arr \notin dropped'
     /\ \A k \in decoding :
          (k \notin decoding' /\ k.arr \notin dropped') =>
            /\ Len(started') = Len(started) + 1
            /\ Last(started').arr = k.arr]_vars

\* a chunk was dropped and a chunk that arrived after it plays, in a session
\* that is still live
C21_Witness ==
  /\ isLive
  /\ status = SPEAKING
  /\ \E d \in dropped : \E i \in DOMAIN started :
       /\ started[i].arr > d
       /\ started[i].arr \in activeSourcesRef

\* C22: when a handler has handled an interruption the user text buffer, the
\* model text buffer and the grounding-source list are empty, so that the
\* next finalization logs nothing that was accumulated before it.
C22_TurnReset ==
  [][InterruptionHandled =>
       /\ currentTranscriptionRef' = EmptyTurn
       /\ currentSourcesRef' = << >>]_vars

\* C24: the frames one capture callback produced reach a session in the order
\* the callback produced them, the frames that waited for the session promise
\* to resolve included.
C24_CaptureOrder ==
  \A s \in Att : \A i, j \in DOMAIN sent[s] :
    (i < j /\ sent[s][i].from = sent[s][j].from) => sent[s][i].no < sent[s][j].no

\* two frames of one callback that waited for the promise of a session were
\* delivered to it
C24_Witness ==
  \E s \in Att : \E i, j \in DOMAIN sent[s] :
    /\ i < j
    /\ sent[s][i].from = sent[s][j].from
    /\ sent[s][i].waited
    /\ sent[s][j].waited

\* an invocation of startSession got past its key test, and no stopSession,
\* remote close or error has happened since the component was mounted
Running ==
  /\ stops = 0
  /\ \E a \in Att : att[a] \in {"gum", "connected"}
  /\ \A a \in Att : att[a] # "failed" /\ sess[a] \notin {"errored", "closed"}

\* C23: from the first tick startSession schedules until the first
\* stopSession, remote close or error, exactly one tick callback is pending.
C23_OneTick == Running => Cardinality(rafPending) = 1

\* the attempt is initializing, connecting or live, and nothing has ended it
InProgress(a) ==
  \/ att[a] = "gum"
  \/ /\ att[a] = "connected"
     /\ sess[a] \in {"connecting", "open"}
     /\ a \notin closeReq \cup closeWait

\* C25: while an attempt is initializing, connecting or live no invocation of
\* startSession begins another one: no second tick loop, capture stream or
\* remote session.
C25_OneAttempt ==
  [][(\E a \in Att : InProgress(a)) =>
       /\ \A b \in Att : att[b] = "none" => att'[b] = "none"
       /\ Cardinality(rafPending') <= 1
       /\ Cardinality(liveTracks') <= 1]_vars

\* stopSession has run and startSession has not been invoked since
Stopped ==
  \E i \in DOMAIN flushes : flushes[i].by = "stop" /\ flushes[i].starts = Starts

\* C26: after stopSession and until the next startSession no step changes the
\* status from Standby, sets isLive or starts a playback buffer.
C26_StaysStandby ==
  [][(Stopped /\ Starts' = Starts) =>
       /\ status' = STANDBY
       /\ ~isLive'
       /\ started' = started]_vars

\* stopSession ran when attempt a existed, and startSession was invoked after it
Superseded(a) ==
  \E i \in DOMAIN flushes :
    /\ flushes[i].by = "stop"
    /\ a <= flushes[i].starts
    /\ Starts > flushes[i].starts

\* onclose or onerror of session a runs in this step
LateCallback(a) == sess'[a] # sess[a] /\ sess'[a] \in {"closed", "errored"}

\* C27: after stopSession and a later startSession, an onclose or onerror of
\* the earlier session changes neither the status nor isLive and cancels no
\* tick of the later attempt.
C27_NoCrossTalk ==
  [][\A a \in Att :
       (Superseded(a) /\ LateCallback(a)) =>
         /\ status' = status
         /\ isLive' = isLive
         /\ rafPending' = rafPending]_vars

\* an inbound chunk is being decoded or is in the in-flight set
Busy == decoding # {} \/ activeSourcesRef # {}

\* C28: while the session is live the status is Speaking exactly when a chunk
\* is being decoded or is in the in-flight set.
C28_SpeakingIffBusy == isLive => (status = SPEAKING <=> Busy)

\* C29: isLive is true exactly when the status is Listening or Speaking.
C29_LiveIffStatus == isLive <=> status \in {LISTENING, SPEAKING}

\* C30: every frame handed to a session comes from the capture callback that
\* the onopen of that session registered, and is handed over while the
\* session is open and nobody has closed it.
C30_OwnPipeline ==
  \A s \in Att : \A i \in DOMAIN sent[s] :
    sent[s][i].from = s /\ sent[s][i].state = "open"

\* q ends with the elements of tail
EndsWith(q, tail) ==
  /\ Len(q) >= Len(tail)
  /\ SubSeq(q, Len(q) - Len(tail) + 1, Len(q)) = tail

\* the message that carried turnComplete in this step
Finalizing == Last(Last(finals').msgs)

\* C31: the deltas and grounding sources of the message that carries
\* turnComplete are in the entries that finalization logs, and the chunk of
\* a message that also carries interrupted is started and then stopped by the
\* interruption of that message.
C31_FieldOrder ==
  [][/\ (Finalized /\ Finalizing.input # << >>) =>
          /\ From("USER", NewEntries) # << >>
          /\ EndsWith(From("USER", NewEntries)[1].message, Finalizing.input)
     /\ (Finalized /\ Finalizing.output # << >>) =>
          /\ From("JARVIS", NewEntries) # << >>
          /\ EndsWith(From("JARVIS", NewEntries)[1].message, Finalizing.output)
          /\ EndsWith(From("JARVIS", NewEntries)[1].sources,
                      NewSources(Finalizing.grounding))
     /\ \A k \in decoding :
          (k.interrupted /\ Len(started') = Len(started) + 1
             /\ Last(started').arr = k.arr) =>
            /\ nodes'[k.arr].state = "stopped"
            /\ k.arr \notin activeSourcesRef'
            /\ Last(flushes').by = "interrupted"
            /\ Last(flushes').arr = k.arr
            /\ k.arr \in Last(flushes').stopped
            /\ status' = LISTENING]_vars

\* a turn was finalized by a message that carried a model delta and a source,
\* after a chunk that came with an interruption was started and stopped
C31_Witness ==
  /\ finals # << >>
  /\ Last(Last(finals).msgs).output # << >>
  /\ Last(Last(finals).msgs).grounding # << >>
  /\ Last(appended).sender = "JARVIS"
  /\ EndsWith(Last(appended).sources, NewSources(Last(Last(finals).msgs).grounding))
  /\ \E i \in DOMAIN flushes :
       /\ flushes[i].by = "interrupted"
       /\ flushes[i].stopped # {}
       /\ \E j \in DOMAIN started : started[j].arr = flushes[i].arr

\* C32: a finalization of a turn without model text logs no JARVIS entry and
\* empties the source list, and the JARVIS entry of any finalization carries
\* the sources of the messages of its own turn only.
C32_NoSourceLeak ==
  [][Finalized =>
       /\ ModelText(Last(finals').msgs) = << >> =>
            /\ From("JARVIS", NewEntries) = << >>
            /\ currentSourcesRef' = << >>
       /\ \A i \in DOMAIN NewEntries :
            NewEntries[i].sender = "JARVIS" =>
              NewEntries[i].sources = WebSources(Last(finals').msgs)]_vars

\* a turn with sources and no model text was finalized, and the JARVIS entry
\* of the next turn carries that turn's sources and none of the earlier ones
C32_Witness ==
  /\ Len(finals) = 2
  /\ WebSources(finals[1].msgs) # << >>
  /\ ModelText(finals[1].msgs) = << >>
  /\ ModelText(finals[2].msgs) # << >>
  /\ Last(appended).sender = "JARVIS"
  /\ Last(appended).sources = WebSources(finals[2].msgs)
  /\ Last(appended).sources # << >>
  /\ \A i \in DOMAIN Last(appended).sources :
       \A j \in DOMAIN WebSources(finals[1].msgs) :
         Last(appended).sources[i] # WebSources(finals[1].msgs)[j]

====
